---- MODULE Spec2Model ----
(***************************************************************************)
(* Inventory ledger and reservation state machine of the inventory         *)
(* management service.                                                     *)
(*                                                                         *)
(* The committed database rows are `inventory`, `reservations` and         *)
(* `adjustments`.  Every request handler runs in a database session of its *)
(* own (src/core/database.py get_db): the rows a session has loaded stay   *)
(* in that session as objects, and the handler's conditions and            *)
(* assignments read and write those objects.  A handler is interleaved     *)
(* with other handlers at its awaits, so each handler is modelled by the   *)
(* steps between which another session can commit:                         *)
(*   Read    the handler's first, unlocked, SELECT;                        *)
(*   Lock    the repository's SELECT ... FOR UPDATE, its check and its     *)
(*           assignments;                                                  *)
(*   Commit  the flush of the session's changes and db.commit().           *)
(***************************************************************************)
EXTENDS Integers, Sequences, FiniteSets, TLC

VARIABLES
    inventory,      \* committed inventory rows, by (product_id, location_id)
    reservations,   \* committed reservation rows, in creation order (id = index)
    adjustments,    \* committed inventory_adjustments rows, in creation order
    locations,      \* ids of the committed locations rows
    locname,        \* name of each locations row
    locactive,      \* active of each locations row
    rows,           \* number of committed inventory rows of each pair
    reorder_point,  \* reorder_point of each inventory row
    now,            \* the clock, in minutes
    events,         \* what the event service has logged, in order
    published,      \* the publish call made last, and how it ended
    updater,        \* the BackgroundMetricsUpdater and the tasks it created
    listing,        \* the answer of the query answered last
    rowlock,        \* holder of the FOR UPDATE lock of each inventory row
    pc,             \* position of each handler
    req,            \* request each handler is serving
    sess,           \* objects each handler's session has loaded
    resp,           \* outcome of the request answered last
    fault,          \* where a storage failure struck that request, if any
    nreq,           \* number of requests started
    \* History of each inventory row, for the statements about it:
    seed,           \* quantity_available the row was created with
    applied,        \* counters the successful requests yield one at a time
    touch,          \* number of commits that wrote the row's counters
    last            \* the commit that wrote the row's counters last

vars == <<inventory, reservations, adjustments, locations, locname, locactive,
          rows, reorder_point, now, events, published, updater, listing, rowlock, pc,
          req, sess, resp, fault, nreq, seed, applied, touch, last>>
hist == <<seed, applied, touch, last>>
\* The locations table.
registry == <<locations, locname, locactive>>
\* What no request handler writes: the clock, the event log and the answer
\* of a query.
outside == <<now, events, published, updater, listing>>

----------------------------------------------------------------------------
\* Bounds of the model.

MaxInit == 2
MaxQty == 2
MaxDelta == 1
MaxRequests == 3
MaxFaultRequests == 2
MaxLocationRequests == 2
MaxReorder == 2
MaxLimit == 3
MaxTime == 2
MaxEventRequests == 2
MaxPublish == 1
MaxFrameRequests == 3
MaxStatsRequests == 2
MaxUpdaterCalls == 4

\* The window of expires_minutes (ge and le of the request model).
MinExpiresMinutes == 1
MaxExpiresMinutes == 1440

Products == {"P", "Q"}
Locations == {"W1", "W2"}
Keys == Products \X Locations
Orders == {"O1", "O2"}
Workers == {"s1", "s2"}
CoreKeys == {<<"P", "W1">>}
CoreOrders == {"O1"}
FrameKeys == {<<"P", "W1">>, <<"P", "W2">>}
CoreLocations == {"W1"}
\* The names a caller gives a location, and the locations the database
\* can hold before the first request, with their names.
Names == {"north", "south"}
SeedLocations == {"W1", "W2"}
SeedName(location_id) == IF location_id = "W1" THEN "north" ELSE "south"

Quantities == 1..MaxQty
CoreQuantities == {1}
ReorderPoints == 0..MaxReorder
CoreReorderPoints == {1}
Limits == 1..MaxLimit
ExpiresMinutes == 1..MaxTime
CoreExpiresMinutes == {1}
\* Values of expires_minutes at and around the ends of the window.
WindowMinutes ==
    {MinExpiresMinutes - 1, MinExpiresMinutes, MaxTime, MaxExpiresMinutes,
     MaxExpiresMinutes + 1}
LowStockKeys == {<<"P", "W1">>, <<"P", "W2">>, <<"Q", "W1">>}
InitialQuantities == 0..MaxInit
Deltas == (0 - MaxDelta)..MaxDelta
CoreDeltas == {1}
\* The ids a caller can name: those of the rows, and one of no row.
ReservationIds == 1..(Len(reservations) + 1)

\* adjustment_type, reason and created_by of an adjust request.
AdjustmentLabels ==
    {[adjustment_type |-> "restock", reason |-> "none", created_by |-> "api"],
     [adjustment_type |-> "damage", reason |-> "broken", created_by |-> "ops"]}
CoreLabels ==
    {[adjustment_type |-> "restock", reason |-> "none", created_by |-> "api"]}

NoOne == "none"
NoKey == <<"none", "none">>
NoInv == [loaded |-> FALSE, available |-> 0, reserved |-> 0]
NoRes == [loaded |-> FALSE, rid |-> 0, status |-> "none"]
NoRow == [present |-> FALSE, available |-> 0, reserved |-> 0]
NoLabel == [adjustment_type |-> "none", reason |-> "none", created_by |-> "none"]
NoLoc == [loaded |-> FALSE, id |-> "none", name |-> "none", active |-> FALSE]
\* name = "none" and has_active = FALSE: the field is not in the request.
NoReq == [op |-> "none", key |-> NoKey, quantity |-> 0, order_id |-> "none",
          rid |-> 0, seen |-> 0, label |-> NoLabel,
          location_id |-> "none", name |-> "none",
          has_active |-> FALSE, active |-> FALSE, reorder_point |-> 0,
          expires_minutes |-> 0]
\* existing: the rows a SELECT of locations by name has found.
NoSess == [inv |-> NoInv, res |-> NoRes, loc |-> NoLoc, existing |-> 0]
NoCounters == [available |-> 0, reserved |-> 0]
NoListing == [op |-> "none", location_id |-> "none", limit |-> 0,
              items |-> <<>>]
\* No publish call yet.
NoPublish == [calls |-> 0, failed |-> "none", reported |-> FALSE,
              outcome |-> "none"]
\* BackgroundMetricsUpdater.__init__: not running, no task.  tasks are the
\* update-loop tasks created so far (task is an index, 0 for None), calls
\* the start and stop calls made, refused the start calls that found the
\* updater running, awaiting the task a stop call is waiting for (0 when
\* no stop call is under way).
NoUpdater == [running |-> FALSE, task |-> 0, tasks |-> <<>>, calls |-> 0,
              refused |-> 0, awaiting |-> 0]
NoLast == [op |-> "none", quantity |-> 0, before |-> NoCounters,
           clean |-> FALSE, roundtrip |-> FALSE]

----------------------------------------------------------------------------
\* ReservationStatus

ACTIVE == "active"
EXPIRED == "expired"
RELEASED == "released"
COMPLETED == "completed"

----------------------------------------------------------------------------
\* Session: the objects a SELECT returns.

\* A plain SELECT of an inventory row by a session that has not loaded it:
\* the committed row, or nothing.
LoadInventory(k) ==
    IF inventory[k].present
    THEN [loaded |-> TRUE, available |-> inventory[k].available,
          reserved |-> inventory[k].reserved]
    ELSE NoInv

\* ReservationRepository.get by a session that has not loaded the row.
LoadReservation(rid) ==
    IF rid \in 1..Len(reservations)
    THEN [loaded |-> TRUE, rid |-> rid, status |-> reservations[rid].status]
    ELSE NoRes

\* LocationRepository.get: the row of the id, or nothing.
LoadLocation(location_id) ==
    IF location_id \in locations
    THEN [loaded |-> TRUE, id |-> location_id, name |-> locname[location_id],
          active |-> locactive[location_id]]
    ELSE NoLoc

\* The repository's select(Inventory)...with_for_update(): the statement
\* locks the row, and the object it returns is the one the session already
\* holds when the row's identity is loaded in the session (the statement
\* does not ask to populate existing objects); otherwise the committed row.
SelectForUpdate(w, k) ==
    IF sess[w].inv.loaded THEN sess[w].inv ELSE LoadInventory(k)

\* ReservationRepository.get of a row the session may hold already.
GetReservation(w, rid) ==
    IF sess[w].res.loaded /\ sess[w].res.rid = rid
    THEN sess[w].res
    ELSE LoadReservation(rid)

----------------------------------------------------------------------------
\* Faulty variants of the repository's code, which the properties below
\* must tell from the code.

\* reserve_inventory without its comparison with quantity_available.
ReserveRefusedUnchecked(inv, quantity) == ~inv.loaded

\* release_inventory that forgets to give the quantity back to available.
ReleaseQuantitiesLossy(inv, quantity) ==
    [inv EXCEPT !.reserved = @ - quantity]

\* An inventory table without the unique index on (product_id, location_id).
UniqueViolationNoIndex(k) == FALSE

\* mark_as_completed that writes the status of a release.
MarkAsReleased(res) ==
    IF ~res.loaded \/ res.status # "active" THEN res
    ELSE [res EXCEPT !.status = "released"]

\* get_low_stock without its sort.
Unsorted(items) == items

\* get_low_stock_items without its WHERE on the reorder point.
AllRows(location_id) ==
    {k \in Keys : /\ inventory[k].present
                  /\ location_id = "none" \/ k[2] = location_id}

\* get_expired_reservations without its WHERE on the status.
ExpiredOfAnyStatus ==
    {rid \in 1..Len(reservations) : reservations[rid].expires_at <= now}

\* A reserve route that inserts its reservation with another quantity.
NewReservationOff(r) ==
    [key |-> r.key, order_id |-> r.order_id, quantity |-> r.quantity + 1,
     status |-> "active", expires_at |-> now + r.expires_minutes]

\* A status check that also refuses a reservation past its expires_at.
TransitionRefusedOverdue(res) ==
    \/ ~res.loaded
    \/ res.status # "active"
    \/ reservations[res.rid].expires_at <= now

\* get_by_product without its WHERE on the product.
AnyProduct(product_id) == {k \in Keys : inventory[k].present}

\* A request model without the window of expires_minutes.
AnyExpiresMinutes(expires_minutes) == TRUE

\* start without the test of _running.
NeverRunning == FALSE

\* An update of a location that writes the fields the request left out.
updateEveryField(location_id, r) ==
    [name |-> [locname EXCEPT ![location_id] = r.name],
     active |-> [locactive EXCEPT ![location_id] = r.active]]

\* mark_as_expired that forgets its assignment.
MarkNothing(res) == res

\* A flush that writes the counters into every row.
FlushEveryRecord(k, inv) ==
    [j \in Keys |-> IF inventory[j].present
                    THEN [inventory[j] EXCEPT !.available = inv.available,
                                              !.reserved = inv.reserved]
                    ELSE inventory[j]]

\* A publish method without its try and except.
Uncaught(failed, error_ok) ==
    IF failed = "none" THEN "returned" ELSE "raised"

\* LocationRepository.delete that forgets its assignment.
deleteKeepsActive(loc) == loc

\* A rollback that leaves the flushed counters of the handler in the row.
RollbackKeepsCounters(w) ==
    [inventory |-> IF pc[w] = "locked"
                   THEN [inventory EXCEPT
                            ![req[w].key].available = sess[w].inv.available,
                            ![req[w].key].reserved = sess[w].inv.reserved]
                   ELSE inventory,
     reservations |-> reservations, adjustments |-> adjustments]

----------------------------------------------------------------------------
\* InventoryRepository: the checks and assignments on the locked object.

ReserveRefused(inv, quantity) == ~inv.loaded \/ inv.available < quantity

ReserveQuantities(inv, quantity) ==
    [inv EXCEPT !.available = @ - quantity, !.reserved = @ + quantity]

ReleaseRefused(inv, quantity) == ~inv.loaded \/ inv.reserved < quantity

ReleaseQuantities(inv, quantity) ==
    [inv EXCEPT !.available = @ + quantity, !.reserved = @ - quantity]

AdjustNotFound(inv) == ~inv.loaded

AdjustRefused(inv, quantity_change) == inv.available + quantity_change < 0

AdjustQuantity(inv, quantity_change) ==
    [inv EXCEPT !.available = @ + quantity_change]

\* The InventoryAdjustment the method adds to the session.
AdjustmentRow(k, quantity_change, label) ==
    [key |-> k, quantity |-> quantity_change,
     adjustment_type |-> label.adjustment_type, reason |-> label.reason,
     created_by |-> label.created_by]

----------------------------------------------------------------------------
\* ReservationRepository: the transitions on the loaded object.

TransitionRefused(res) == ~res.loaded \/ res.status # ACTIVE

mark_as_completed(res) ==
    IF TransitionRefused(res) THEN res ELSE [res EXCEPT !.status = COMPLETED]

mark_as_expired(res) ==
    IF TransitionRefused(res) THEN res ELSE [res EXCEPT !.status = EXPIRED]

release_reservation(res) ==
    IF TransitionRefused(res) THEN res ELSE [res EXCEPT !.status = RELEASED]

----------------------------------------------------------------------------
\* Flush: the UPDATE statements of a commit carry the columns to which the
\* session assigned a value other than the loaded one, with that value.

FlushCounters(k, inv) ==
    [inventory EXCEPT ![k].available = inv.available,
                      ![k].reserved = inv.reserved]

\* adjust_inventory assigns quantity_available the loaded value plus the
\* change: no UPDATE of the row when the change is 0.
FlushAvailable(k, inv, quantity_change) ==
    IF quantity_change = 0
    THEN inventory
    ELSE [inventory EXCEPT ![k].available = inv.available]

FlushStatus(res) ==
    [reservations EXCEPT ![res.rid].status = res.status]

----------------------------------------------------------------------------
\* History: the one-at-a-time effect of a successful request on the
\* counters, and the record of the commit.

Counters(row) == [available |-> row.available, reserved |-> row.reserved]

AppliedReserve(k, quantity) ==
    [applied EXCEPT ![k].available = @ - quantity, ![k].reserved = @ + quantity]

AppliedRelease(k, quantity) ==
    [applied EXCEPT ![k].available = @ + quantity, ![k].reserved = @ - quantity]

AppliedAdjust(k, quantity_change) ==
    [applied EXCEPT ![k].available = @ + quantity_change]

\* No other session committed on row k since handler w started.
Clean(w, k) == req[w].seen = touch[k]

\* Handler w commits `op` on row k.  A release is a round trip when it
\* follows, with nothing in between, a reserve of the same quantity that
\* itself had nothing between its start and its commit.
Touch(w, k, op, quantity) ==
    /\ touch' = [touch EXCEPT ![k] = @ + 1]
    /\ last' = [last EXCEPT ![k] =
           [op |-> op, quantity |-> quantity,
            before |-> Counters(inventory[k]), clean |-> Clean(w, k),
            roundtrip |-> /\ op = "release"
                          /\ Clean(w, k)
                          /\ last[k].op = "reserve"
                          /\ last[k].clean
                          /\ last[k].quantity = quantity]]

----------------------------------------------------------------------------
\* The database before the first request: no row, or rows as
\* create_inventory and create_location leave them, on the records K and
\* the locations L, with reorder points of R.
InitOn(K, L, R) ==
    /\ inventory \in [Keys -> {NoRow} \cup
           {[present |-> TRUE, available |-> n, reserved |-> 0] :
               n \in InitialQuantities}]
    /\ \A k \in Keys \ K : inventory[k] = NoRow
    /\ reservations = <<>>
    /\ adjustments = <<>>
    /\ locations \in SUBSET L
    /\ locname = [l \in Locations |->
                      IF l \in locations THEN SeedName(l) ELSE "none"]
    /\ locactive = [l \in Locations |-> l \in locations]
    /\ \A k \in Keys : inventory[k].present => k[2] \in locations
    /\ rows = [k \in Keys |-> IF inventory[k].present THEN 1 ELSE 0]
    /\ reorder_point \in [Keys -> R \cup {0}]
    /\ \A k \in Keys : IF inventory[k].present
                        THEN reorder_point[k] \in R
                        ELSE reorder_point[k] = 0
    /\ now = 0
    /\ events = <<>>
    /\ published = NoPublish
    /\ updater = NoUpdater
    /\ listing = NoListing
    /\ rowlock = [k \in Keys |-> NoOne]
    /\ pc = [w \in Workers |-> "idle"]
    /\ req = [w \in Workers |-> NoReq]
    /\ sess = [w \in Workers |-> NoSess]
    /\ resp = "none"
    /\ fault = "none"
    /\ nreq = 0
    /\ seed = [k \in Keys |-> inventory[k].available]
    /\ applied = [k \in Keys |-> Counters(inventory[k])]
    /\ touch = [k \in Keys |-> 0]
    /\ last = [k \in Keys |-> NoLast]

Init == InitOn(CoreKeys, CoreLocations, CoreReorderPoints)

\* A handler starts: its first SELECT has loaded the objects of `s`.
StartSession(w, r, s) ==
    /\ pc[w] = "idle"
    /\ nreq < MaxRequests
    /\ nreq' = nreq + 1
    /\ pc' = [pc EXCEPT ![w] = "read"]
    /\ req' = [req EXCEPT ![w] = r]
    /\ sess' = [sess EXCEPT ![w] = s]
    /\ resp' = "none"
    /\ fault' = "none"
    /\ UNCHANGED <<inventory, reservations, adjustments, registry, outside, rows, reorder_point,
                   rowlock, hist>>

\* A handler of the ledger starts: its first SELECT has loaded `inv` and
\* `res`.
Start(w, r, inv, res) ==
    StartSession(w, r, [NoSess EXCEPT !.inv = inv, !.res = res])

\* The handler answers: its session ends (rollback or commit done).
Finish(w, code, at) ==
    /\ pc' = [pc EXCEPT ![w] = "idle"]
    /\ req' = [req EXCEPT ![w] = NoReq]
    /\ sess' = [sess EXCEPT ![w] = NoSess]
    /\ resp' = code
    /\ fault' = at

Answer(w, code) == Finish(w, code, "none")

\* The handler passed the repository call and holds the row lock.
Hold(w, k, inv, res) ==
    /\ pc' = [pc EXCEPT ![w] = "locked"]
    /\ sess' = [sess EXCEPT ![w] = [NoSess EXCEPT !.inv = inv, !.res = res]]
    /\ rowlock' = [rowlock EXCEPT ![k] = w]
    /\ UNCHANGED <<req, resp, fault>>

----------------------------------------------------------------------------
\* create_inventory

\* LocationRepository.get found the location.
LocationExists(loc) == loc.loaded

\* The unique index ix_inventory_product_location refuses the INSERT.
UniqueViolation(k) == rows[k] > 0

\* The SELECT of the location and of the pair's row.
CreateRead(w, k, quantity_available, point) ==
    StartSession(w, [NoReq EXCEPT !.op = "create", !.key = k,
                                  !.quantity = quantity_available,
                                  !.reorder_point = point],
                 [NoSess EXCEPT !.inv = LoadInventory(k),
                                !.loc = LoadLocation(k[2])])

\* NotFoundError when the location has no row (the locations rows do not
\* change); ConflictError when the pair had a row; a 500 when the INSERT
\* fails on the unique index because a row has come since.
CreateCommit(w) ==
    /\ pc[w] = "read"
    /\ req[w].op = "create"
    /\ IF ~LocationExists(sess[w].loc)
       THEN /\ Answer(w, "NotFound")
            /\ UNCHANGED <<inventory, rows, reorder_point, seed, applied>>
       ELSE IF sess[w].inv.loaded
       THEN /\ Answer(w, "Conflict")
            /\ UNCHANGED <<inventory, rows, reorder_point, seed, applied>>
       ELSE IF UniqueViolation(req[w].key)
       THEN /\ Answer(w, "Internal")
            /\ UNCHANGED <<inventory, rows, reorder_point, seed, applied>>
       ELSE /\ inventory' = [inventory EXCEPT ![req[w].key] =
                 [present |-> TRUE, available |-> req[w].quantity,
                  reserved |-> 0]]
            /\ rows' = [rows EXCEPT ![req[w].key] = @ + 1]
            /\ reorder_point' = [reorder_point EXCEPT ![req[w].key] =
                 req[w].reorder_point]
            /\ seed' = [seed EXCEPT ![req[w].key] = req[w].quantity]
            /\ applied' = [applied EXCEPT ![req[w].key] =
                 [available |-> req[w].quantity, reserved |-> 0]]
            /\ Answer(w, "OK")
    /\ UNCHANGED <<reservations, adjustments, registry, outside, rowlock, touch, last, nreq>>

----------------------------------------------------------------------------
\* reserve_inventory

\* The unlocked get_by_product_and_location.
ReserveRead(w, k, quantity, order_id, expires_minutes) ==
    Start(w, [NoReq EXCEPT !.op = "reserve", !.key = k,
                           !.quantity = quantity, !.order_id = order_id,
                           !.expires_minutes = expires_minutes,
                           !.seen = touch[k]],
          LoadInventory(k), NoRes)

\* NotFoundError, or InventoryRepository.reserve_inventory under the row
\* lock and InsufficientStockError (the rollback gives the lock back).
ReserveLock(w) ==
    /\ pc[w] = "read"
    /\ req[w].op = "reserve"
    /\ IF ~sess[w].inv.loaded
       THEN /\ Answer(w, "NotFound")
            /\ UNCHANGED rowlock
       ELSE /\ rowlock[req[w].key] = NoOne
            /\ LET inv == SelectForUpdate(w, req[w].key) IN
               IF ReserveRefused(inv, req[w].quantity)
               THEN /\ Answer(w, "InsufficientStock")
                    /\ UNCHANGED rowlock
               ELSE Hold(w, req[w].key,
                         ReserveQuantities(inv, req[w].quantity), sess[w].res)
    /\ UNCHANGED <<inventory, reservations, adjustments, nreq, registry, outside, rows, reorder_point, hist>>

\* The reservation the route creates: ACTIVE, expiring expires_minutes
\* from the clock.
NewReservation(r) ==
    [key |-> r.key, order_id |-> r.order_id, quantity |-> r.quantity,
     status |-> ACTIVE, expires_at |-> now + r.expires_minutes]

\* The request model's validation of expires_minutes.
ValidExpiresMinutes(expires_minutes) ==
    /\ expires_minutes >= MinExpiresMinutes
    /\ expires_minutes <= MaxExpiresMinutes

\* A reserve request as it arrives: the 422 of the validation, with no
\* session opened, or the route.
ReserveRequest(w, k, quantity, order_id, expires_minutes) ==
    IF ValidExpiresMinutes(expires_minutes)
    THEN ReserveRead(w, k, quantity, order_id, expires_minutes)
    ELSE /\ pc[w] = "idle"
         /\ nreq < MaxRequests
         /\ nreq' = nreq + 1
         /\ resp' = "Unprocessable"
         /\ fault' = "none"
         /\ UNCHANGED <<inventory, reservations, adjustments, registry,
                        outside, rows, reorder_point, rowlock, pc, req, sess,
                        hist>>

\* The reservation is inserted; flush and commit.
ReserveCommit(w) ==
    /\ pc[w] = "locked"
    /\ req[w].op = "reserve"
    /\ inventory' = FlushCounters(req[w].key, sess[w].inv)
    /\ reservations' = Append(reservations, NewReservation(req[w]))
    /\ rowlock' = [rowlock EXCEPT ![req[w].key] = NoOne]
    /\ applied' = AppliedReserve(req[w].key, req[w].quantity)
    /\ Touch(w, req[w].key, "reserve", req[w].quantity)
    /\ Answer(w, "OK")
    /\ UNCHANGED <<adjustments, nreq, registry, outside, rows, reorder_point, seed>>

----------------------------------------------------------------------------
\* release_inventory (the route by product, location, quantity and order)

\* get_active_by_order and the search for the matching reservation.
Matching(k, quantity, order_id) ==
    {rid \in 1..Len(reservations) :
        /\ reservations[rid].order_id = order_id
        /\ reservations[rid].status = ACTIVE
        /\ reservations[rid].key = k
        /\ reservations[rid].quantity = quantity}

\* The reservations come with their inventory row (selectinload).
ReleaseRead(w, k, quantity, order_id) ==
    LET r == [NoReq EXCEPT !.op = "release", !.key = k,
                           !.quantity = quantity, !.order_id = order_id,
                           !.seen = touch[k]]
    IN  IF Matching(k, quantity, order_id) = {}
        THEN Start(w, r, NoInv, NoRes)
        ELSE \E rid \in Matching(k, quantity, order_id) :
                 Start(w, [r EXCEPT !.rid = rid], LoadInventory(k),
                              LoadReservation(rid))

\* NotFoundError, or InventoryRepository.release_inventory under the row
\* lock and ConflictError, then ReservationRepository.release_reservation,
\* whose result the route does not look at.
ReleaseLock(w) ==
    /\ pc[w] = "read"
    /\ req[w].op = "release"
    /\ IF ~sess[w].res.loaded
       THEN /\ Answer(w, "NotFound")
            /\ UNCHANGED rowlock
       ELSE /\ rowlock[req[w].key] = NoOne
            /\ LET inv == SelectForUpdate(w, req[w].key) IN
               IF ReleaseRefused(inv, req[w].quantity)
               THEN /\ Answer(w, "Conflict")
                    /\ UNCHANGED rowlock
               ELSE Hold(w, req[w].key,
                         ReleaseQuantities(inv, req[w].quantity),
                         release_reservation(GetReservation(w, req[w].rid)))
    /\ UNCHANGED <<inventory, reservations, adjustments, nreq, registry, outside, rows, reorder_point, hist>>

\* Flush and commit of a release (either route).
CommitRelease(w, k, quantity) ==
    /\ pc[w] = "locked"
    /\ inventory' = FlushCounters(k, sess[w].inv)
    /\ reservations' = FlushStatus(sess[w].res)
    /\ rowlock' = [rowlock EXCEPT ![k] = NoOne]
    /\ applied' = AppliedRelease(k, quantity)
    /\ Touch(w, k, "release", quantity)
    /\ Answer(w, "OK")
    /\ UNCHANGED <<adjustments, nreq, registry, outside, rows, reorder_point, seed>>

ReleaseCommit(w) ==
    /\ req[w].op = "release"
    /\ CommitRelease(w, req[w].key, req[w].quantity)

----------------------------------------------------------------------------
\* release_reservation (the route by reservation id)

\* ReservationRepository.get: the reservation with its inventory row.
ReleaseReservationRead(w, rid) ==
    LET res == LoadReservation(rid)
        k == IF res.loaded THEN reservations[rid].key ELSE NoKey
    IN  Start(w, [NoReq EXCEPT !.op = "release_reservation",
                                      !.rid = rid, !.key = k,
                                      !.quantity = IF res.loaded
                                                   THEN reservations[rid].quantity
                                                   ELSE 0,
                                      !.seen = IF res.loaded THEN touch[k] ELSE 0],
                     IF res.loaded THEN LoadInventory(k) ELSE NoInv, res)

\* NotFoundError when the reservation is missing or not ACTIVE; else
\* release_inventory under the row lock and the 409; then
\* ReservationRepository.release_reservation.
ReleaseReservationLock(w) ==
    /\ pc[w] = "read"
    /\ req[w].op = "release_reservation"
    /\ IF TransitionRefused(sess[w].res)
       THEN /\ Answer(w, "NotFound")
            /\ UNCHANGED rowlock
       ELSE /\ rowlock[req[w].key] = NoOne
            /\ LET inv == SelectForUpdate(w, req[w].key) IN
               IF ReleaseRefused(inv, req[w].quantity)
               THEN /\ Answer(w, "Conflict")
                    /\ UNCHANGED rowlock
               ELSE Hold(w, req[w].key,
                         ReleaseQuantities(inv, req[w].quantity),
                         release_reservation(GetReservation(w, req[w].rid)))
    /\ UNCHANGED <<inventory, reservations, adjustments, nreq, registry, outside, rows, reorder_point, hist>>

ReleaseReservationCommit(w) ==
    /\ req[w].op = "release_reservation"
    /\ CommitRelease(w, req[w].key, req[w].quantity)

----------------------------------------------------------------------------
\* complete_reservation, and a caller of mark_as_expired

\* The transition's own SELECT (ReservationRepository.get).
CompleteRead(w, rid) ==
    Start(w, [NoReq EXCEPT !.op = "complete", !.rid = rid],
                 NoInv, LoadReservation(rid))

ExpireRead(w, rid) ==
    Start(w, [NoReq EXCEPT !.op = "expire", !.rid = rid],
                 NoInv, LoadReservation(rid))

\* The transition on the loaded object; flush and commit, or the failure.
CommitTransition(w, res) ==
    /\ pc[w] = "read"
    /\ IF TransitionRefused(sess[w].res)
       THEN /\ Answer(w, "NotFound")
            /\ UNCHANGED reservations
       ELSE /\ reservations' = FlushStatus(res)
            /\ Answer(w, "OK")
    /\ UNCHANGED <<inventory, adjustments, rowlock, nreq, registry, outside, rows, reorder_point, hist>>

CompleteCommit(w) ==
    /\ req[w].op = "complete"
    /\ CommitTransition(w, mark_as_completed(sess[w].res))

ExpireCommit(w) ==
    /\ req[w].op = "expire"
    /\ CommitTransition(w, mark_as_expired(sess[w].res))

----------------------------------------------------------------------------
\* adjust_inventory

AdjustRead(w, k, quantity_change, label) ==
    Start(w, [NoReq EXCEPT !.op = "adjust", !.key = k,
                           !.quantity = quantity_change,
                           !.label = label, !.seen = touch[k]],
          LoadInventory(k), NoRes)

\* NotFoundError, or InventoryRepository.adjust_inventory under the row lock;
\* its failure is BadRequestError for a negative change, else a 500.
AdjustLock(w) ==
    /\ pc[w] = "read"
    /\ req[w].op = "adjust"
    /\ IF ~sess[w].inv.loaded
       THEN /\ Answer(w, "NotFound")
            /\ UNCHANGED rowlock
       ELSE /\ rowlock[req[w].key] = NoOne
            /\ LET inv == SelectForUpdate(w, req[w].key) IN
               IF AdjustNotFound(inv) \/ AdjustRefused(inv, req[w].quantity)
               THEN /\ Answer(w, IF req[w].quantity < 0
                                 THEN "BadRequest" ELSE "Internal")
                    /\ UNCHANGED rowlock
               ELSE Hold(w, req[w].key,
                         AdjustQuantity(inv, req[w].quantity), sess[w].res)
    /\ UNCHANGED <<inventory, reservations, adjustments, nreq, registry, outside, rows, reorder_point, hist>>

\* The adjustment row is inserted with the UPDATE; flush and commit.
AdjustCommit(w) ==
    /\ pc[w] = "locked"
    /\ req[w].op = "adjust"
    /\ inventory' = FlushAvailable(req[w].key, sess[w].inv, req[w].quantity)
    /\ adjustments' = Append(adjustments,
           AdjustmentRow(req[w].key, req[w].quantity, req[w].label))
    /\ rowlock' = [rowlock EXCEPT ![req[w].key] = NoOne]
    /\ applied' = AppliedAdjust(req[w].key, req[w].quantity)
    /\ Touch(w, req[w].key, "adjust", req[w].quantity)
    /\ Answer(w, "OK")
    /\ UNCHANGED <<reservations, nreq, registry, outside, rows, reorder_point, seed>>

----------------------------------------------------------------------------
\* LocationRepository

\* get_by_name: the rows the SELECT finds (the name column has an index
\* that is not unique).
get_by_name(name) == {l \in locations : locname[l] = name}

\* delete: the assignment on the loaded object.
delete(loc) == [loc EXCEPT !.active = FALSE]

\* update: the UPDATE ... WHERE id, with the fields of update_data.
update(location_id, r) ==
    [name |-> IF r.name # "none"
              THEN [locname EXCEPT ![location_id] = r.name] ELSE locname,
     active |-> IF r.has_active
                THEN [locactive EXCEPT ![location_id] = r.active]
                ELSE locactive]

\* The session's UPDATE of a locations row whose `active` was assigned.
FlushActive(loaded, assigned) ==
    IF assigned.active = loaded.active
    THEN locactive
    ELSE [locactive EXCEPT ![loaded.id] = assigned.active]

\* The ids uuid4 can give a new row (never one of a row).
FreshLocations == Locations \ locations

\* Creates on their way to the INSERT.
Creating == {w \in Workers : /\ pc[w] = "read"
                             /\ req[w].op = "create_location"
                             /\ sess[w].existing = 0}

\* The locations handlers leave the ledger alone.
LedgerUnchanged ==
    UNCHANGED <<inventory, reservations, adjustments, rows, reorder_point,
                rowlock, nreq, hist, outside>>

----------------------------------------------------------------------------
\* create_location

\* The SELECT by name.
CreateLocationRead(w, name) ==
    /\ get_by_name(name) = {}
           => Cardinality(Creating) < Cardinality(FreshLocations)
    /\ StartSession(w, [NoReq EXCEPT !.op = "create_location", !.name = name],
                    [NoSess EXCEPT !.existing = Cardinality(get_by_name(name))])

\* scalar_one_or_none raises on two rows (the 500); ConflictError on one;
\* else the INSERT and the commit.
CreateLocationCommit(w) ==
    /\ pc[w] = "read"
    /\ req[w].op = "create_location"
    /\ IF sess[w].existing > 1
       THEN /\ Answer(w, "Internal")
            /\ UNCHANGED registry
       ELSE IF sess[w].existing = 1
       THEN /\ Answer(w, "Conflict")
            /\ UNCHANGED registry
       ELSE \E id \in FreshLocations :
               /\ locations' = locations \cup {id}
               /\ locname' = [locname EXCEPT ![id] = req[w].name]
               /\ locactive' = [locactive EXCEPT ![id] = TRUE]
               /\ Answer(w, "OK")
    /\ LedgerUnchanged

----------------------------------------------------------------------------
\* update_location

\* LocationRepository.get.
UpdateLocationRead(w, location_id, name, has_active, active) ==
    StartSession(w, [NoReq EXCEPT !.op = "update_location",
                                  !.location_id = location_id, !.name = name,
                                  !.has_active = has_active, !.active = active],
                 [NoSess EXCEPT !.loc = LoadLocation(location_id)])

\* NotFoundError; the SELECT by name when the name changes, and its 500 or
\* ConflictError; the answer with the loaded row when the request has no
\* field.
UpdateLocationCheck(w) ==
    /\ pc[w] = "read"
    /\ req[w].op = "update_location"
    /\ LET found == IF req[w].name # "none" /\ req[w].name # sess[w].loc.name
                    THEN Cardinality(get_by_name(req[w].name)) ELSE 0
       IN  IF ~sess[w].loc.loaded THEN Answer(w, "NotFound")
           ELSE IF found > 1 THEN Answer(w, "Internal")
           ELSE IF found = 1 THEN Answer(w, "Conflict")
           ELSE IF req[w].name = "none" /\ ~req[w].has_active
           THEN Answer(w, "OK")
           ELSE /\ pc' = [pc EXCEPT ![w] = "checked"]
                /\ UNCHANGED <<req, sess, resp, fault>>
    /\ UNCHANGED registry
    /\ LedgerUnchanged

\* The UPDATE and the commit.
UpdateLocationCommit(w) ==
    /\ pc[w] = "checked"
    /\ req[w].op = "update_location"
    /\ locname' = update(req[w].location_id, req[w]).name
    /\ locactive' = update(req[w].location_id, req[w]).active
    /\ Answer(w, "OK")
    /\ UNCHANGED locations
    /\ LedgerUnchanged

----------------------------------------------------------------------------
\* deactivate_location

\* LocationRepository.delete: its get.
DeactivateLocationRead(w, location_id) ==
    StartSession(w, [NoReq EXCEPT !.op = "deactivate_location",
                                  !.location_id = location_id],
                 [NoSess EXCEPT !.loc = LoadLocation(location_id)])

\* NotFoundError, or the assignment, the flush and the commit.
DeactivateLocationCommit(w) ==
    /\ pc[w] = "read"
    /\ req[w].op = "deactivate_location"
    /\ IF ~sess[w].loc.loaded
       THEN /\ Answer(w, "NotFound")
            /\ UNCHANGED locactive
       ELSE /\ locactive' = FlushActive(sess[w].loc, delete(sess[w].loc))
            /\ Answer(w, "OK")
    /\ UNCHANGED <<locations, locname>>
    /\ LedgerUnchanged

----------------------------------------------------------------------------
\* get_location and list_locations

get_location(location_id) == LoadLocation(location_id)

\* The order of the names and of the ids.
NameOrder(name) == CASE name = "north" -> 1 [] name = "south" -> 2 [] OTHER -> 0
IdOrder(location_id) == IF location_id = "W1" THEN 1 ELSE 2
LocName(l) == NameOrder(locname[l])
LocRank(l) == IdOrder(l)

\* The rows of `ids` in the order of their names (rows of one name in the
\* order of their ids).
RECURSIVE ByName(_)
ByName(ids) ==
    IF ids = {} THEN <<>>
    ELSE LET first == CHOOSE l \in ids :
                          \A m \in ids \ {l} :
                              \/ LocName(l) < LocName(m)
                              \/ LocName(l) = LocName(m) /\ LocRank(l) < LocRank(m)
         IN  <<first>> \o ByName(ids \ {first})

\* LocationRepository.list: the filter on active, ORDER BY name, LIMIT and
\* OFFSET.
list(include_inactive, limit, offset) ==
    LET all == ByName({l \in locations : include_inactive \/ locactive[l]})
    IN  SubSeq(all, offset + 1,
               IF offset + limit < Len(all) THEN offset + limit ELSE Len(all))

----------------------------------------------------------------------------
\* get_low_stock

\* The sequences of n different elements of S: the rows a SELECT without
\* ORDER BY and with LIMIT n can return.
Orderings(S, n) ==
    {f \in [1..n -> S] : \A i \in 1..n, j \in 1..n : i # j => f[i] # f[j]}

Min(a, b) == IF a < b THEN a ELSE b

\* InventoryRepository.get_low_stock_items: the rows of its WHERE clauses
\* (location_id = "none": the request names no location).
get_low_stock_items(location_id) ==
    {k \in Keys : /\ inventory[k].present
                  /\ inventory[k].available <= reorder_point[k]
                  /\ location_id = "none" \/ k[2] = location_id}

\* The LowStockItem of a row.
LowStockItem(k) ==
    [key |-> k, quantity_available |-> inventory[k].available,
     reorder_point |-> reorder_point[k],
     shortage |-> reorder_point[k] - inventory[k].available]

\* response_items.sort(key=shortage, reverse=True): the stable sort, as an
\* insertion of each item behind the items of no smaller shortage.
RECURSIVE SortByShortage(_)
SortByShortage(items) ==
    IF items = <<>> THEN <<>>
    ELSE LET item == items[Len(items)]
             sorted == SortByShortage(SubSeq(items, 1, Len(items) - 1))
             n == Cardinality({i \in 1..Len(sorted) :
                                  sorted[i].shortage >= item.shortage})
         IN  SubSeq(sorted, 1, n) \o <<item>>
                 \o SubSeq(sorted, n + 1, Len(sorted))

\* The route: the SELECT, the items, the sort.  It is the one query of the
\* behaviour.
GetLowStock(location_id, limit) ==
    /\ listing = NoListing
    /\ LET found == get_low_stock_items(location_id) IN
       \E f \in Orderings(found, Min(limit, Cardinality(found))) :
           listing' = [op |-> "low_stock", location_id |-> location_id,
                       limit |-> limit,
                       items |-> SortByShortage(
                           [i \in 1..Len(f) |-> LowStockItem(f[i])])]
    /\ UNCHANGED <<inventory, reservations, adjustments, registry, rows,
                   reorder_point, now, events, published, updater, rowlock, pc, req,
                   sess, resp, fault, nreq, hist>>

----------------------------------------------------------------------------
\* get_inventory

\* InventoryRepository.get_by_product: the rows of the product.
get_by_product(product_id) ==
    {k \in Keys : inventory[k].present /\ k[1] = product_id}

\* InventoryRepository.get_by_product_and_location: the row of the pair.
get_by_product_and_location(product_id, location_id) ==
    {k \in Keys : inventory[k].present /\ k = <<product_id, location_id>>}

\* The InventoryResponse of a row.
InventoryResponse(k) ==
    [key |-> k, quantity_available |-> inventory[k].available,
     quantity_reserved |-> inventory[k].reserved]

\* sum(...) of the route.
RECURSIVE sum(_)
sum(q) == IF q = <<>> THEN 0 ELSE Head(q) + sum(Tail(q))

\* The InventoryStatsResponse of the rows, in the order they came.
InventoryStatsResponse(product_id, inventories) ==
    [product_id |-> product_id, code |-> "OK",
     total_available |->
         sum([i \in 1..Len(inventories) |-> inventory[inventories[i]].available]),
     total_reserved |->
         sum([i \in 1..Len(inventories) |-> inventory[inventories[i]].reserved]),
     locations |->
         [i \in 1..Len(inventories) |-> InventoryResponse(inventories[i])]]

\* The answer of the route when it finds no row.
NoInventory(product_id) ==
    [product_id |-> product_id, code |-> "NotFound", total_available |-> 0,
     total_reserved |-> 0, locations |-> <<>>]

\* The route: the SELECT of the pair, or of the product in an order the
\* database chooses; NotFoundError, or the totals and the rows.  It is the
\* one query of the behaviour.
GetInventory(product_id, location_id) ==
    /\ listing = NoListing
    /\ LET found == IF location_id # "none"
                    THEN get_by_product_and_location(product_id, location_id)
                    ELSE get_by_product(product_id)
       IN  IF found = {}
           THEN listing' = [op |-> "inventory", location_id |-> location_id,
                            limit |-> 0, items |-> <<NoInventory(product_id)>>]
           ELSE \E f \in Orderings(found, Cardinality(found)) :
                    listing' = [op |-> "inventory",
                                location_id |-> location_id, limit |-> 0,
                                items |-> <<InventoryStatsResponse(product_id, f)>>]
    /\ UNCHANGED <<inventory, reservations, adjustments, registry, rows,
                   reorder_point, now, events, published, updater, rowlock, pc, req,
                   sess, resp, fault, nreq, hist>>

----------------------------------------------------------------------------
\* The clock, and get_expired_reservations

\* A minute passes.
Tick ==
    /\ now < MaxTime
    /\ now' = now + 1
    /\ UNCHANGED <<inventory, reservations, adjustments, registry, rows,
                   reorder_point, events, published, updater, listing, rowlock, pc, req,
                   sess, resp, fault, nreq, hist>>

\* ReservationRepository.get_expired_reservations: the rows of its WHERE
\* clause.
get_expired_reservations ==
    {rid \in 1..Len(reservations) : /\ reservations[rid].status = ACTIVE
                                    /\ reservations[rid].expires_at <= now}

\* The ReservationResponse of a row.
ReservationResponse(rid) ==
    [id |-> rid, status |-> reservations[rid].status,
     expires_at |-> reservations[rid].expires_at,
     quantity |-> reservations[rid].quantity]

\* The route: the SELECT with its LIMIT, and the responses.  It is the one
\* query of the behaviour.
GetExpired(limit) ==
    /\ listing = NoListing
    /\ LET found == get_expired_reservations IN
       \E f \in Orderings(found, Min(limit, Cardinality(found))) :
           listing' = [op |-> "expired", location_id |-> "none",
                       limit |-> limit,
                       items |-> [i \in 1..Len(f) |-> ReservationResponse(f[i])]]
    /\ UNCHANGED <<inventory, reservations, adjustments, registry, rows,
                   reorder_point, now, events, published, updater, rowlock, pc, req,
                   sess, resp, fault, nreq, hist>>

----------------------------------------------------------------------------
\* InventoryEventService

\* The five publish methods, by the event_type of their event.
EventTypes ==
    {"InventoryReserved", "InventoryReleased", "InventoryAdjusted",
     "LowStockAlert", "InventoryUpdated"}

\* The values of the enumerations of the event data.
AdjustmentType ==
    {"restock", "damage", "theft", "correction", "return", "manual"}
AlertLevel == {"warning", "critical", "urgent"}
UpdateType == {"reservation", "release", "adjustment", "restock", "manual"}

\* What a caller can pass: a product_id or None, and an adjustment_type,
\* alert_level or update_type, one of them in no enumeration.
EventArguments ==
    [product_id : {"P", "none"},
     type : {"restock", "warning", "bogus"}]

\* The event data and the event can be built: product_id is a str, and
\* the type is a value of the enumeration of the method.
Built(event_type, a) ==
    /\ a.product_id # "none"
    /\ CASE event_type = "InventoryAdjusted" -> a.type \in AdjustmentType
         [] event_type = "LowStockAlert" -> a.type \in AlertLevel
         [] event_type = "InventoryUpdated" -> a.type \in UpdateType
         [] OTHER -> TRUE

\* The log call that stands for the delivery of the event.
Level(event_type) ==
    IF event_type = "LowStockAlert" THEN "warning" ELSE "info"

\* Where the try block of a publish method fails, if it does: in the
\* construction of the event, or in the log call that delivers it.
Failure(event_type, a, info_ok) ==
    IF ~Built(event_type, a) THEN "build"
    ELSE IF ~info_ok THEN "deliver"
    ELSE "none"

\* How a publish method ends: except Exception catches what the try
\* block raises and calls self.logger.error, and what that call raises
\* leaves the method.
Caught(failed, error_ok) ==
    IF failed = "none" \/ error_ok THEN "returned" ELSE "raised"

\* What the method has logged when it ends.
Logged(event_type, failed, error_ok) ==
    IF failed = "none"
    THEN Append(events, [event_type |-> event_type,
                         level |-> Level(event_type)])
    ELSE IF error_ok
         THEN Append(events, [event_type |-> event_type, level |-> "error"])
         ELSE events

\* A call of a publish method, with a logger whose info (or warning)
\* and error calls work or raise.  The method has no session and writes
\* no row.
Publish(event_type, a, info_ok, error_ok) ==
    /\ published.calls < MaxPublish
    /\ LET failed == Failure(event_type, a, info_ok) IN
           /\ events' = Logged(event_type, failed, error_ok)
           /\ published' = [calls |-> published.calls + 1,
                            failed |-> failed,
                            reported |-> failed # "none" /\ error_ok,
                            outcome |-> Caught(failed, error_ok)]
    /\ UNCHANGED <<inventory, reservations, adjustments, registry, rows,
                   reorder_point, now, updater, listing, rowlock, pc, req,
                   sess, resp, fault, nreq, hist>>

----------------------------------------------------------------------------
\* Storage failures

\* The route has come to its call of the InventoryRepository method.
ReachesRepository(w) ==
    CASE req[w].op \in {"reserve", "adjust"} -> sess[w].inv.loaded
      [] req[w].op = "release" -> sess[w].res.loaded
      [] req[w].op = "release_reservation" -> ~TransitionRefused(sess[w].res)
      [] OTHER -> FALSE

\* What the route raises when the repository method returns False.
RefusalCode(r) ==
    CASE r.op = "reserve" -> "InsufficientStock"
      [] r.op \in {"release", "release_reservation"} -> "Conflict"
      [] r.op = "adjust" -> IF r.quantity < 0 THEN "BadRequest" ELSE "Internal"

\* The committed rows after db.rollback(): what the transaction flushed is
\* gone.
Rollback(w) ==
    [inventory |-> inventory, reservations |-> reservations,
     adjustments |-> adjustments]

\* The statement of the repository method fails: the method catches the
\* exception and returns False, and the route raises as for a refusal.
RepositoryFault(w) ==
    /\ pc[w] = "read"
    /\ ReachesRepository(w)
    /\ Finish(w, RefusalCode(req[w]), "repository")
    /\ UNCHANGED <<inventory, reservations, adjustments, rowlock, nreq,
                   registry, outside, rows, reorder_point, hist>>

\* A statement after the repository call fails (the INSERT of the
\* reservation or of the adjustment, the flush, the COMMIT): the route's
\* except clause rolls back and raises the 500.
CommitFault(w) ==
    /\ \/ pc[w] = "locked"
       \/ /\ pc[w] = "read"
          /\ req[w].op = "complete"
          /\ ~TransitionRefused(sess[w].res)
    /\ inventory' = Rollback(w).inventory
    /\ reservations' = Rollback(w).reservations
    /\ adjustments' = Rollback(w).adjustments
    /\ rowlock' = [k \in Keys |-> IF rowlock[k] = w THEN NoOne ELSE rowlock[k]]
    /\ Finish(w, "Internal", "commit")
    /\ UNCHANGED <<nreq, registry, outside, rows, reorder_point, hist>>

----------------------------------------------------------------------------
\* BackgroundMetricsUpdater

\* What the updater's methods leave alone.
ledger == <<inventory, reservations, adjustments, registry, rows,
            reorder_point, now, events, published, listing, rowlock, pc, req,
            sess, resp, fault, nreq, hist>>

\* asyncio.create_task(self._update_loop()): the task is scheduled and has
\* not run yet.  at is where the task is suspended, cancelled whether a
\* cancellation is waiting for it, failed whether its last metrics update
\* raised.
NewTask == [at |-> "created", cancelled |-> FALSE, failed |-> FALSE]

\* not task.done()
Live == {t \in 1..Len(updater.tasks) : updater.tasks[t].at # "done"}

\* Task.cancel(): a task that is done is left as it is.
cancel(tasks, t) ==
    IF tasks[t].at = "done" THEN tasks
                            ELSE [tasks EXCEPT ![t].cancelled = TRUE]

\* The test start begins with.
AlreadyRunning == updater.running

\* start makes no await: it is one step.  A call begins when the call
\* before it has returned.
start ==
    /\ updater.calls < MaxUpdaterCalls
    /\ updater.awaiting = 0
    /\ IF AlreadyRunning
       THEN updater' = [updater EXCEPT !.calls = @ + 1, !.refused = @ + 1]
       ELSE updater' = [updater EXCEPT !.calls = @ + 1,
                                       !.running = TRUE,
                                       !.tasks = Append(@, NewTask),
                                       !.task = Len(updater.tasks) + 1]
    /\ UNCHANGED ledger

\* stop up to `await self._task`: the await of a task that is done does
\* not suspend (its CancelledError is passed over), so stop returns at
\* once; so it does without a task.  _task is not reset.
stop ==
    /\ updater.calls < MaxUpdaterCalls
    /\ updater.awaiting = 0
    /\ updater' = [updater EXCEPT
           !.calls = @ + 1,
           !.running = FALSE,
           !.tasks = IF updater.task # 0 THEN cancel(@, updater.task) ELSE @,
           !.awaiting = IF updater.task \in Live THEN updater.task ELSE 0]
    /\ UNCHANGED ledger

\* The awaited task is done: stop goes on after the await and returns.
stopped ==
    /\ updater.awaiting # 0
    /\ updater.tasks[updater.awaiting].at = "done"
    /\ updater' = [updater EXCEPT !.awaiting = 0]
    /\ UNCHANGED ledger

\* Task t runs again with a cancellation waiting: CancelledError is raised
\* where it is suspended.  A task that never ran ends at once; in the
\* metrics update `except Exception` lets the error through, and in the
\* loop `except asyncio.CancelledError` breaks.
CancelledError(t) ==
    /\ t \in Live
    /\ updater.tasks[t].cancelled
    /\ updater' = [updater EXCEPT !.tasks[t].at = "done"]
    /\ UNCHANGED ledger

\* `while self._running`, as the task runs first or when its sleep is over.
update_loop(t) ==
    /\ t \in Live
    /\ ~ updater.tasks[t].cancelled
    /\ updater.tasks[t].at \in {"created", "sleeping"}
    /\ updater' = [updater EXCEPT
           !.tasks[t].at = IF updater.running THEN "updating" ELSE "done"]
    /\ UNCHANGED ledger

\* Where the task goes when its metrics update ended.  An Exception of
\* the update is logged by `except Exception` of the update itself, which
\* returns; what would leave it is logged by the loop's own handler: the
\* task sleeps in either case.
AfterUpdate(raises) == "sleeping"

\* The metrics update of task t ends, with or without an Exception of its
\* queries.  It only reads the inventory table.
update_inventory_metrics(t, raises) ==
    /\ t \in Live
    /\ ~ updater.tasks[t].cancelled
    /\ updater.tasks[t].at = "updating"
    /\ updater' = [updater EXCEPT !.tasks[t].at = AfterUpdate(raises),
                                  !.tasks[t].failed = raises]
    /\ UNCHANGED ledger

----------------------------------------------------------------------------
\* The handlers of the sessions W on the records K for the orders O, with
\* the adjustment labels L.
NextOn(W, K, O, L) ==
    \/ \E w \in W, k \in K, q \in InitialQuantities, p \in CoreReorderPoints :
           CreateRead(w, k, q, p)
    \/ \E w \in W : CreateCommit(w)
    \/ \E w \in W, k \in K, q \in Quantities, o \in O,
          m \in CoreExpiresMinutes : ReserveRead(w, k, q, o, m)
    \/ \E w \in W : ReserveLock(w)
    \/ \E w \in W : ReserveCommit(w)
    \/ \E w \in W, k \in K, q \in Quantities, o \in O : ReleaseRead(w, k, q, o)
    \/ \E w \in W : ReleaseLock(w)
    \/ \E w \in W : ReleaseCommit(w)
    \/ \E w \in W, rid \in ReservationIds : ReleaseReservationRead(w, rid)
    \/ \E w \in W : ReleaseReservationLock(w)
    \/ \E w \in W : ReleaseReservationCommit(w)
    \/ \E w \in W, rid \in ReservationIds : CompleteRead(w, rid)
    \/ \E w \in W : CompleteCommit(w)
    \/ \E w \in W, rid \in ReservationIds : ExpireRead(w, rid)
    \/ \E w \in W : ExpireCommit(w)
    \/ \E w \in W, k \in K, d \in Deltas, l \in L : AdjustRead(w, k, d, l)
    \/ \E w \in W : AdjustLock(w)
    \/ \E w \in W : AdjustCommit(w)

\* Concurrent sessions on one record, the storage never failing.
Next == NextOn(Workers, CoreKeys, CoreOrders, CoreLabels)

Spec == Init /\ [][Next]_vars

\* Concurrent adjust requests on one record, with every label.
NextAdjust ==
    \/ \E w \in Workers, k \in CoreKeys, d \in Deltas, l \in AdjustmentLabels :
           AdjustRead(w, k, d, l)
    \/ \E w \in Workers : AdjustLock(w)
    \/ \E w \in Workers : AdjustCommit(w)
    \/ \E w \in Workers : RepositoryFault(w)
    \/ \E w \in Workers : CommitFault(w)

SpecAdjust == Init /\ [][NextAdjust]_vars

\* Concurrent sessions on one record, with storage failures.
NextFault ==
    \/ Next /\ nreq' <= MaxFaultRequests
    \/ \E w \in Workers : RepositoryFault(w)
    \/ \E w \in Workers : CommitFault(w)

SpecFault == Init /\ [][NextFault]_vars

\* The locations registry under concurrent sessions, and create_inventory
\* on its locations.
UpdateFields == {<<FALSE, FALSE>>, <<TRUE, TRUE>>, <<TRUE, FALSE>>}

NextLocation ==
    \/ /\ nreq < MaxLocationRequests
       /\ \E w \in Workers, name \in Names : CreateLocationRead(w, name)
    \/ \E w \in Workers : CreateLocationCommit(w)
    \/ /\ nreq < MaxLocationRequests
       /\ \E w \in Workers, l \in Locations, name \in Names \cup {"none"},
             f \in UpdateFields : UpdateLocationRead(w, l, name, f[1], f[2])
    \/ \E w \in Workers : UpdateLocationCheck(w)
    \/ \E w \in Workers : UpdateLocationCommit(w)
    \/ /\ nreq < MaxLocationRequests
       /\ \E w \in Workers, l \in Locations : DeactivateLocationRead(w, l)
    \/ \E w \in Workers : DeactivateLocationCommit(w)
    \/ /\ nreq < MaxLocationRequests
       /\ \E w \in Workers, k \in CoreKeys, p \in CoreReorderPoints :
             CreateRead(w, k, 0, p)
    \/ \E w \in Workers : CreateCommit(w)

SpecLocation == InitOn({}, SeedLocations, CoreReorderPoints) /\ [][NextLocation]_vars

\* The low-stock query on every table of inventory rows.
NextLowStock ==
    \E location_id \in Locations \cup {"none"}, limit \in Limits :
        GetLowStock(location_id, limit)

\* Every location is there, and the records of LowStockKeys may be.
InitLowStock ==
    /\ InitOn(LowStockKeys, Locations, ReorderPoints)
    /\ locations = Locations

SpecLowStock == InitLowStock /\ [][NextLowStock]_vars

\* One session reserving, releasing, completing and expiring on one record
\* while the clock runs, and the query of the expired reservations.
NextExpiry ==
    \/ \E k \in CoreKeys, q \in Quantities, o \in CoreOrders,
          m \in ExpiresMinutes : ReserveRead("s1", k, q, o, m)
    \/ ReserveLock("s1")
    \/ ReserveCommit("s1")
    \/ \E rid \in ReservationIds : ReleaseReservationRead("s1", rid)
    \/ ReleaseReservationLock("s1")
    \/ ReleaseReservationCommit("s1")
    \/ \E rid \in ReservationIds : CompleteRead("s1", rid)
    \/ CompleteCommit("s1")
    \/ \E rid \in ReservationIds : ExpireRead("s1", rid)
    \/ ExpireCommit("s1")
    \/ Tick
    \/ \E limit \in Limits : GetExpired(limit)

SpecExpiry == Init /\ [][NextExpiry]_vars

\* What the server is bound to do: a handler that has started takes its
\* next step, and the clock runs.  No caller is bound to send a request.
HandlerStep(w) ==
    \/ ReserveLock(w)
    \/ ReserveCommit(w)
    \/ ReleaseReservationLock(w)
    \/ ReleaseReservationCommit(w)
    \/ CompleteCommit(w)
    \/ ExpireCommit(w)

SpecExpiryFair ==
    /\ SpecExpiry
    /\ WF_vars(Tick)
    /\ \A w \in Workers : WF_vars(HandlerStep(w))

\* One session's reserve, release and adjust requests, and the calls of
\* the publish methods an owner of the event service can make.  No route
\* makes one.
NextEvents ==
    \/ /\ nreq < MaxEventRequests
       /\ \E k \in CoreKeys, q \in CoreQuantities, o \in CoreOrders,
             m \in CoreExpiresMinutes : ReserveRead("s1", k, q, o, m)
    \/ ReserveLock("s1")
    \/ ReserveCommit("s1")
    \/ /\ nreq < MaxEventRequests
       /\ \E k \in CoreKeys, q \in CoreQuantities, o \in CoreOrders :
             ReleaseRead("s1", k, q, o)
    \/ ReleaseLock("s1")
    \/ ReleaseCommit("s1")
    \/ /\ nreq < MaxEventRequests
       /\ \E k \in CoreKeys, d \in CoreDeltas, l \in CoreLabels :
             AdjustRead("s1", k, d, l)
    \/ AdjustLock("s1")
    \/ AdjustCommit("s1")
    \/ \E t \in EventTypes, a \in EventArguments,
          info_ok \in BOOLEAN, error_ok \in BOOLEAN :
          Publish(t, a, info_ok, error_ok)

SpecEvents == Init /\ [][NextEvents]_vars

\* Concurrent sessions reserving, releasing and completing on one record:
\* the requests that write reservations and the reserved counter.
NextReservations ==
    \/ \E w \in Workers, k \in CoreKeys, q \in Quantities, o \in CoreOrders,
          m \in CoreExpiresMinutes : ReserveRead(w, k, q, o, m)
    \/ \E w \in Workers : ReserveLock(w)
    \/ \E w \in Workers : ReserveCommit(w)
    \/ \E w \in Workers, k \in CoreKeys, q \in Quantities, o \in CoreOrders :
          ReleaseRead(w, k, q, o)
    \/ \E w \in Workers : ReleaseLock(w)
    \/ \E w \in Workers : ReleaseCommit(w)
    \/ \E w \in Workers, rid \in ReservationIds :
          ReleaseReservationRead(w, rid)
    \/ \E w \in Workers : ReleaseReservationLock(w)
    \/ \E w \in Workers : ReleaseReservationCommit(w)
    \/ \E w \in Workers, rid \in ReservationIds : CompleteRead(w, rid)
    \/ \E w \in Workers : CompleteCommit(w)

SpecReservations == Init /\ [][NextReservations]_vars

\* One session's reserve requests with expires_minutes at and around the
\* ends of the window, while the clock runs.
NextWindow ==
    \/ \E k \in CoreKeys, q \in CoreQuantities, o \in CoreOrders,
          m \in WindowMinutes : ReserveRequest("s1", k, q, o, m)
    \/ ReserveLock("s1")
    \/ ReserveCommit("s1")
    \/ Tick

SpecWindow == Init /\ [][NextWindow]_vars

\* One session's reserve, release and adjust requests on the records of
\* one product at two locations, next to a record of another product, and
\* the query of a product's inventory.
NextStats ==
    \/ /\ nreq < MaxStatsRequests
       /\ \E k \in FrameKeys, q \in CoreQuantities, o \in CoreOrders,
             m \in CoreExpiresMinutes : ReserveRead("s1", k, q, o, m)
    \/ ReserveLock("s1")
    \/ ReserveCommit("s1")
    \/ /\ nreq < MaxStatsRequests
       /\ \E k \in FrameKeys, q \in CoreQuantities, o \in CoreOrders :
             ReleaseRead("s1", k, q, o)
    \/ ReleaseLock("s1")
    \/ ReleaseCommit("s1")
    \/ /\ nreq < MaxStatsRequests
       /\ \E k \in FrameKeys, d \in CoreDeltas, l \in CoreLabels :
             AdjustRead("s1", k, d, l)
    \/ AdjustLock("s1")
    \/ AdjustCommit("s1")
    \/ \E product_id \in Products, location_id \in Locations \cup {"none"} :
          GetInventory(product_id, location_id)

\* Both locations are there, and the records of LowStockKeys may be.
InitStats ==
    /\ InitOn(LowStockKeys, Locations, CoreReorderPoints)
    /\ locations = Locations

SpecStats == InitStats /\ [][NextStats]_vars

\* The start and stop calls of one caller, and the steps of the tasks the
\* updater created.
NextUpdater ==
    \/ start
    \/ stop
    \/ stopped
    \/ \E t \in 1..MaxUpdaterCalls : CancelledError(t)
    \/ \E t \in 1..MaxUpdaterCalls : update_loop(t)
    \/ \E t \in 1..MaxUpdaterCalls, raises \in BOOLEAN :
          update_inventory_metrics(t, raises)

SpecUpdater == Init /\ [][NextUpdater]_vars

\* Concurrent reserve, release and adjust requests on the records of one
\* product at two locations.
NextFrame ==
    \/ /\ nreq < MaxFrameRequests
       /\ \E w \in Workers, k \in FrameKeys, q \in CoreQuantities,
             o \in CoreOrders, m \in CoreExpiresMinutes :
             ReserveRead(w, k, q, o, m)
    \/ \E w \in Workers : ReserveLock(w)
    \/ \E w \in Workers : ReserveCommit(w)
    \/ /\ nreq < MaxFrameRequests
       /\ \E w \in Workers, k \in FrameKeys, q \in CoreQuantities,
             o \in CoreOrders : ReleaseRead(w, k, q, o)
    \/ \E w \in Workers : ReleaseLock(w)
    \/ \E w \in Workers : ReleaseCommit(w)
    \/ /\ nreq < MaxFrameRequests
       /\ \E w \in Workers, k \in FrameKeys, d \in CoreDeltas,
             l \in CoreLabels : AdjustRead(w, k, d, l)
    \/ \E w \in Workers : AdjustLock(w)
    \/ \E w \in Workers : AdjustCommit(w)

\* Both locations are there, and the records of FrameKeys may be.
InitFrame ==
    /\ InitOn(FrameKeys, Locations, CoreReorderPoints)
    /\ locations = Locations

SpecFrame == InitFrame /\ [][NextFrame]_vars

----------------------------------------------------------------------------
\* Properties.

\* Handler w answers in this step.
Answers(w) == pc[w] # "idle" /\ pc'[w] = "idle"

Total(row) == row.available + row.reserved

ReservationsOf(k) == {rid \in 1..Len(reservations) : reservations[rid].key = k}

RECURSIVE SumQuantities(_)
SumQuantities(rids) ==
    IF rids = {} THEN 0
    ELSE LET rid == CHOOSE x \in rids : TRUE
         IN  reservations[rid].quantity + SumQuantities(rids \ {rid})

\* Every commit on row k was the commit of a reserve.
OnlyReserves(k) == touch[k] = Cardinality(ReservationsOf(k))

\* C1: the available and the reserved counter of every inventory record are
\* non-negative in every state, and so are the values a handler has loaded
\* or assigned in its session.
NonNegativeCounters ==
    /\ \A k \in Keys : inventory[k].available >= 0 /\ inventory[k].reserved >= 0
    /\ \A w \in Workers : sess[w].inv.available >= 0 /\ sess[w].inv.reserved >= 0

\* C1 happens: requests have driven a record's available counter to zero
\* with stock reserved.
CountersAtZero ==
    \E k \in Keys : /\ inventory[k].present
                    /\ touch[k] > 0
                    /\ inventory[k].available = 0
                    /\ inventory[k].reserved > 0

\* C2: on a record created with available = N on which only reserve
\* requests have committed, the quantities of the granted reservations sum
\* to at most N.
NoOverselling ==
    \A k \in Keys :
        inventory[k].present /\ OnlyReserves(k)
            => SumQuantities(ReservationsOf(k)) <= seed[k]

\* C3: the committed counters of a record are those that the successful
\* reserve, release and adjust requests yield when applied one at a time:
\* no update to either counter is lost.
NoLostUpdate ==
    \A k \in Keys : inventory[k].present => Counters(inventory[k]) = applied[k]

TerminalIsFinal ==
    [][/\ \A rid \in 1..Len(reservations) :
              reservations[rid].status # ACTIVE
                  => reservations'[rid].status = reservations[rid].status
       /\ \A w \in Workers :
              /\ Answers(w)
              /\ pc[w] = "read"
              /\ req[w].op \in {"complete", "release", "release_reservation"}
              /\ sess[w].res.loaded
              /\ sess[w].res.status # ACTIVE
              => resp' # "OK"]_vars

\* C6: a complete or release request succeeds only on a reservation that is
\* active when the request commits, so of the concurrent requests on one
\* reservation at most one succeeds and its quantity is moved at most once.
TransitionsOnce ==
    [][\A w \in Workers :
          /\ Answers(w)
          /\ resp' = "OK"
          /\ req[w].op \in {"complete", "release", "release_reservation"}
          => reservations[req[w].rid].status = ACTIVE]_vars

\* C7: release of a reservation by id is one unit: when it succeeds the
\* reservation is released and exactly its quantity has moved from reserved
\* to available; when it fails the inventory and the reservations are as
\* they were.
ReleaseReservationAtomic ==
    [][\A w \in Workers :
          Answers(w) /\ req[w].op = "release_reservation"
              => IF resp' = "OK"
                 THEN /\ reservations'[req[w].rid].status = RELEASED
                      /\ inventory'[req[w].key].available =
                             inventory[req[w].key].available + req[w].quantity
                      /\ inventory'[req[w].key].reserved =
                             inventory[req[w].key].reserved - req[w].quantity
                 ELSE UNCHANGED <<inventory, reservations>>]_vars

ReserveRefusal ==
    [][\A w \in Workers :
          pc[w] = "read" /\ req[w].op = "reserve" /\ pc'[w] # "read"
              => /\ ~inventory[req[w].key].present
                     => /\ Answers(w)
                        /\ resp' = "NotFound"
                        /\ UNCHANGED <<inventory, reservations>>
                 /\ sess[w].inv.loaded
                        /\ inventory[req[w].key].available < req[w].quantity
                     => /\ Answers(w)
                        /\ resp' = "InsufficientStock"
                        /\ UNCHANGED <<inventory, reservations>>]_vars

\* C10: a release that follows a reserve of the same quantity on a record
\* that nothing else has written since the reserve started leaves both
\* counters as they were before the reserve.
RoundTrip ==
    [][\A k \in Keys :
          last'[k] # last[k] /\ last'[k].roundtrip
              => Counters(inventory'[k]) = last[k].before]_vars

\* C10 happens: the last commit on a record was such a release.
RoundTripDone ==
    \E k \in Keys : /\ last[k].roundtrip
                    /\ last[k].op = "release"
                    /\ inventory[k].present

\* C11: a successful adjust by delta sets available to available + delta,
\* leaves reserved as it was, and inserts exactly one adjustment row for the
\* record with the request's delta, type, reason and actor.
AdjustEffect ==
    [][\A w \in Workers :
          Answers(w) /\ req[w].op = "adjust" /\ resp' = "OK"
              => /\ inventory'[req[w].key].available =
                        inventory[req[w].key].available + req[w].quantity
                 /\ inventory'[req[w].key].reserved =
                        inventory[req[w].key].reserved
                 /\ adjustments' = Append(adjustments,
                        [key |-> req[w].key, quantity |-> req[w].quantity,
                         adjustment_type |-> req[w].label.adjustment_type,
                         reason |-> req[w].label.reason,
                         created_by |-> req[w].label.created_by])]_vars

AdjustmentLog ==
    [][/\ Len(adjustments') >= Len(adjustments)
       /\ \A i \in 1..Len(adjustments) : adjustments'[i] = adjustments[i]
       /\ \A w \in Workers :
              Answers(w) /\ req[w].op = "adjust"
                  => IF resp' = "OK"
                     THEN /\ Len(adjustments') = Len(adjustments) + 1
                          /\ adjustments'[Len(adjustments')].key = req[w].key
                          /\ adjustments'[Len(adjustments')].quantity =
                                 inventory'[req[w].key].available
                                     - inventory[req[w].key].available
                     ELSE adjustments' = adjustments
       /\ (\A w \in Workers : ~(Answers(w) /\ req[w].op = "adjust"))
              => adjustments' = adjustments]_vars

CompleteDeducts ==
    [][\A w \in Workers :
          Answers(w) /\ req[w].op = "complete" /\ resp' = "OK"
              => LET res == reservations[req[w].rid] IN
                 /\ inventory'[res.key].reserved =
                        inventory[res.key].reserved - res.quantity
                 /\ inventory'[res.key].available =
                        inventory[res.key].available]_vars

\* C16: a complete or a release by id of an existing reservation that is
\* not active is answered with Conflict, and of an id without reservation
\* with NotFound.
TerminalConflict ==
    [][\A w \in Workers :
          /\ Answers(w)
          /\ pc[w] = "read"
          /\ req[w].op \in {"complete", "release_reservation"}
          => /\ sess[w].res.loaded /\ sess[w].res.status # ACTIVE
                 => resp' = "Conflict"
             /\ ~sess[w].res.loaded => resp' = "NotFound"]_vars

\* C17: a reserve, release, adjust, complete or release by id that does not
\* succeed, whatever its step that failed, leaves the inventory, the
\* reservations and the adjustment rows as they were.
AllOrNothing ==
    [][\A w \in Workers :
          /\ Answers(w)
          /\ resp' # "OK"
          /\ req[w].op \in {"reserve", "release", "adjust", "complete",
                            "release_reservation"}
          => UNCHANGED <<inventory, reservations, adjustments>>]_vars

\* C17 happens: a request failed after its repository call had assigned
\* the counters or the status, and was rolled back.
RolledBack ==
    /\ fault = "commit"
    /\ resp = "Internal"
    /\ \E k \in Keys : inventory[k].present

\* C18: a storage failure in a reserve, a release or an adjust is answered
\* with Internal and changes nothing.
FaultIsInternal ==
    [][\A w \in Workers :
          /\ Answers(w)
          /\ fault' # "none"
          /\ req[w].op \in {"reserve", "release", "release_reservation",
                            "adjust"}
          => /\ resp' = "Internal"
             /\ UNCHANGED <<inventory, reservations, adjustments>>]_vars

\* C19: a create for a location without row is answered with NotFound, a
\* create for a pair that has a record with Conflict, and neither creates
\* or changes a record; a successful create makes the record of the pair
\* with the requested available and reserved = 0.
CreateContract ==
    [][\A w \in Workers :
          Answers(w) /\ req[w].op = "create"
              => /\ req[w].key[2] \notin locations
                     => resp' = "NotFound" /\ inventory' = inventory
                 /\ req[w].key[2] \in locations /\ inventory[req[w].key].present
                     => resp' = "Conflict" /\ inventory' = inventory
                 /\ resp' = "OK"
                     => /\ ~inventory[req[w].key].present
                        /\ inventory' = [inventory EXCEPT ![req[w].key] =
                               [present |-> TRUE,
                                available |-> req[w].quantity,
                                reserved |-> 0]]]_vars

\* C20: every (product_id, location_id) pair has at most one inventory row.
OneRowPerPair ==
    \A k \in Keys : rows[k] <= 1 /\ (inventory[k].present <=> rows[k] = 1)

\* C20 happens: of two concurrent creates for a pair one has made the row
\* and the INSERT of the other was refused.
SecondCreateRefused ==
    /\ resp = "Internal"
    /\ fault = "none"
    /\ \E k \in Keys : rows[k] = 1 /\ touch[k] = 0

UniqueNames ==
    \A a \in locations, b \in locations : a # b => locname[a] # locname[b]

\* C21: no two locations ever have the same name; a create with a name in
\* use, and a rename to the name of another location, are answered with
\* Conflict and change nothing.
LocationNamesUnique ==
    [][/\ UniqueNames'
       /\ \A w \in Workers :
              /\ Answers(w)
              /\ req[w].op = "create_location"
              /\ get_by_name(req[w].name) # {}
              => resp' = "Conflict" /\ UNCHANGED registry
       /\ \A w \in Workers :
              /\ Answers(w)
              /\ req[w].op = "update_location"
              /\ sess[w].loc.loaded
              /\ \E l \in get_by_name(req[w].name) : l # req[w].location_id
              => resp' = "Conflict" /\ UNCHANGED registry]_vars

\* C22: a create of an inventory record at a location that has been
\* deactivated is refused and creates nothing, and the records that exist
\* stay.
InactiveLocationClosed ==
    [][/\ \A w \in Workers :
              /\ Answers(w)
              /\ req[w].op = "create"
              /\ sess[w].loc.loaded
              /\ ~sess[w].loc.active
              => resp' # "OK" /\ inventory' = inventory
       /\ \A k \in Keys : inventory[k].present => inventory'[k].present]_vars

\* Every page of the default list holds active locations only, and the
\* list with the inactive ones holds every location.
ListsByActive ==
    /\ \A limit \in 1..Cardinality(Locations),
          offset \in 0..(Cardinality(Locations) - 1) :
           LET page == list(FALSE, limit, offset)
           IN  \A i \in 1..Len(page) : locactive[page[i]]
    /\ LET all == list(TRUE, Cardinality(Locations), 0)
       IN  {all[i] : i \in 1..Len(all)} = locations

\* C23: no location is ever removed, and each can be read by its id; a
\* deactivate of a location sets active = false (and writes nothing when the
\* location it read was inactive already), succeeds either way, and fails
\* with NotFound on an id without location; an inactive location is in no
\* page of the default list and is in the list with the inactive ones.
SoftDelete ==
    /\ []ListsByActive
    /\ [][
       /\ locations \subseteq locations'
       /\ \A l \in locations' : get_location(l)'.loaded
       /\ \A w \in Workers :
              Answers(w) /\ req[w].op = "deactivate_location"
                  => IF sess[w].loc.loaded
                     THEN /\ resp' = "OK"
                          /\ sess[w].loc.active
                                 => ~locactive'[req[w].location_id]
                          /\ ~sess[w].loc.active => locactive' = locactive
                          /\ UNCHANGED <<locations, locname>>
                     ELSE /\ resp' = "NotFound"
                          /\ UNCHANGED registry]_vars

\* C23 happens: a deactivate has read a location that is inactive already.
DeactivatesAgain ==
    \E w \in Workers : /\ pc[w] = "read"
                       /\ req[w].op = "deactivate_location"
                       /\ sess[w].loc.loaded
                       /\ ~sess[w].loc.active

\* C24: the low-stock query answers only records with available <=
\* reorder_point (of the location asked for, when one is), each with
\* shortage = reorder_point - available, in non-increasing order of
\* shortage.
LowStockListing ==
    [][listing'.op = "low_stock" /\ listing' # listing
          => LET items == listing'.items IN
             /\ \A i \in 1..Len(items) :
                    /\ inventory[items[i].key].present
                    /\ inventory[items[i].key].available
                           <= reorder_point[items[i].key]
                    /\ listing'.location_id # "none"
                           => items[i].key[2] = listing'.location_id
                    /\ items[i].shortage =
                           reorder_point[items[i].key]
                               - inventory[items[i].key].available
             /\ \A i \in 1..Len(items), j \in 1..Len(items) :
                    i < j => items[i].shortage >= items[j].shortage]_vars

\* C24 happens: the query has answered records of different shortage.
LowStockRanked ==
    /\ listing.op = "low_stock"
    /\ Len(listing.items) >= 2
    /\ listing.items[1].shortage > listing.items[Len(listing.items)].shortage

ExpiredListing ==
    [][listing'.op = "expired" /\ listing' # listing
          => LET items == listing'.items IN
             /\ \A i \in 1..Len(items) :
                    /\ reservations[items[i].id].status = ACTIVE
                    /\ reservations[items[i].id].expires_at <= now
                    /\ \A j \in 1..Len(items) :
                           i # j => items[i].id # items[j].id
             /\ Len(items) <= listing'.limit
             /\ UNCHANGED <<reservations, inventory>>]_vars

\* C26 happens: the query has answered an expired reservation while another
\* reservation had left the active state.
ExpiredListed ==
    /\ listing.op = "expired"
    /\ Len(listing.items) >= 1
    /\ \E rid \in 1..Len(reservations) : reservations[rid].status # ACTIVE

\* C27: an active reservation whose expires_at has passed becomes expired
\* in the end (the step that gives its quantity back from reserved to
\* available), without a request of a caller.
ExpiresInTheEnd ==
    \A rid \in 1..MaxRequests :
        (/\ rid <= Len(reservations)
         /\ reservations[rid].status = ACTIVE
         /\ reservations[rid].expires_at <= now)
            ~> (/\ rid <= Len(reservations)
                /\ reservations[rid].status = EXPIRED)

\* C28: a release by product, location, quantity and order succeeds only
\* when the order has an active reservation of that record and quantity,
\* and then sets exactly one such reservation released and moves exactly
\* the quantity from reserved to available; without such a reservation it
\* fails with NotFound, with fewer than the quantity reserved it fails with
\* Conflict, and a failure changes nothing.
ReleaseContract ==
    [][\A w \in Workers :
          Answers(w) /\ req[w].op = "release"
              => LET k == req[w].key
                     found == Matching(k, req[w].quantity, req[w].order_id)
                 IN  /\ found = {} => resp' = "NotFound"
                     /\ found # {} /\ inventory[k].reserved < req[w].quantity
                            => resp' = "Conflict"
                     /\ IF resp' = "OK"
                        THEN /\ \E rid \in found :
                                    reservations' = [reservations EXCEPT
                                        ![rid].status = RELEASED]
                             /\ inventory'[k].reserved =
                                    inventory[k].reserved - req[w].quantity
                             /\ inventory'[k].available =
                                    inventory[k].available + req[w].quantity
                        ELSE UNCHANGED <<inventory, reservations>>]_vars

\* The event of each mutation.
EventOf(op) ==
    CASE op = "reserve" -> "InventoryReserved"
      [] op = "release" -> "InventoryReleased"
      [] op = "adjust" -> "InventoryAdjusted"

\* C29: a reserve, release or adjust request that succeeds fires the
\* publish method of its event: when it is answered, the event service has
\* logged one more entry, of the event of the request.
EventFired ==
    [][\A w \in Workers :
          (/\ Answers(w)
           /\ resp' = "OK"
           /\ req[w].op \in {"reserve", "release", "adjust"})
              => /\ Len(events') = Len(events) + 1
                 /\ events'[Len(events')].event_type = EventOf(req[w].op)]_vars

\* The ledger and the open transactions, which no publish call touches.
PublishKeepsLedger ==
    [][published' # published
          => UNCHANGED <<inventory, reservations, adjustments, rowlock, pc,
                         sess>>]_vars

ReservedIsHeld ==
    \A k \in Keys :
        inventory[k].present
            => inventory[k].reserved =
                   SumQuantities({rid \in ReservationsOf(k) :
                       reservations[rid].status \in {ACTIVE, COMPLETED}})

\* Handler w takes this step, and the record of its request.
Acting(w) == pc'[w] # pc[w]
ActingOn(w) == IF pc[w] = "idle" THEN req'[w] ELSE req[w]

\* C32: a step of a reserve, release or adjust request on one record
\* leaves the counters of every other record as they are, writes no
\* reservation and no adjustment of another record, and adds none.
SingleRecordScope ==
    [][\A w \in Workers :
          (Acting(w) /\ ActingOn(w).op \in {"reserve", "release", "adjust"})
              => LET k == ActingOn(w).key IN
                 /\ \A j \in Keys \ {k} : inventory'[j] = inventory[j]
                 /\ Len(reservations') >= Len(reservations)
                 /\ Len(adjustments') >= Len(adjustments)
                 /\ \A rid \in 1..Len(reservations') :
                       reservations'[rid].key # k
                           => /\ rid <= Len(reservations)
                              /\ reservations'[rid] = reservations[rid]
                 /\ \A a \in 1..Len(adjustments') :
                       adjustments'[a].key # k
                           => /\ a <= Len(adjustments)
                              /\ adjustments'[a] = adjustments[a]]_vars

\* Both records have a reservation, one record has an adjustment, and the
\* counters of the two records differ.
BothRecordsWritten ==
    /\ \A k \in FrameKeys : ReservationsOf(k) # {}
    /\ Len(adjustments) > 0
    /\ Counters(inventory[<<"P", "W1">>]) # Counters(inventory[<<"P", "W2">>])

\* The columns of a reservation other than its status.
Fixed(res) == [res EXCEPT !.status = "none"]

\* C33: a reservation is inserted only by a reserve request that succeeds,
\* for the record, the order and the quantity of that request and in
\* status active; after that the rows keep their place and only their
\* status changes.
ReservationFixed ==
    [][/\ Len(reservations') \in {Len(reservations), Len(reservations) + 1}
       /\ \A rid \in 1..Len(reservations) :
             Fixed(reservations'[rid]) = Fixed(reservations[rid])
       /\ Len(reservations') > Len(reservations)
             => \E w \in Workers :
                   /\ Answers(w)
                   /\ req[w].op = "reserve"
                   /\ resp' = "OK"
                   /\ LET new == reservations'[Len(reservations')] IN
                      /\ new.key = req[w].key
                      /\ new.order_id = req[w].order_id
                      /\ new.quantity = req[w].quantity
                      /\ new.status = ACTIVE]_vars

\* Two reservations were inserted, and the first has left active since.
ReservationMovedOn ==
    /\ Len(reservations) >= 2
    /\ reservations[1].status = RELEASED
    /\ reservations[2].status = ACTIVE

\* C34: mark_as_expired succeeds exactly when the reservation it loaded
\* is active, and then sets the status of that reservation to expired; on
\* a missing or non-active reservation it fails and writes nothing; in no
\* case does it write a counter of the ledger, so the quantity stays in
\* reserved until a release.
MarkExpired ==
    [][\A w \in Workers :
          Answers(w) /\ req[w].op = "expire"
              => /\ inventory' = inventory
                 /\ IF sess[w].res.loaded /\ sess[w].res.status = ACTIVE
                    THEN /\ resp' = "OK"
                         /\ reservations' =
                                [reservations EXCEPT
                                    ![req[w].rid].status = EXPIRED]
                    ELSE /\ resp' # "OK"
                         /\ reservations' = reservations]_vars

\* A reservation is expired and its quantity is still in reserved.
ExpiredStillReserved ==
    /\ Len(reservations) = 1
    /\ reservations[1].status = EXPIRED
    /\ inventory[reservations[1].key].reserved = reservations[1].quantity

MostCriticalListed ==
    listing.op = "low_stock"
        => LET listed == {listing.items[i].key : i \in 1..Len(listing.items)}
           IN  \A k \in get_low_stock_items(listing.location_id) \ listed :
                  \A i \in 1..Len(listing.items) :
                      reorder_point[k] - inventory[k].available
                          <= listing.items[i].shortage

\* C37: a step of an update of a location writes nothing but the name and
\* the active flag of that location, each only when the request supplies
\* it and the update succeeds; a request that supplies neither writes
\* nothing, and an update of an id that is no location fails with
\* NotFound.
PartialUpdate ==
    [][\A w \in Workers :
          (Acting(w) /\ ActingOn(w).op = "update_location")
              => LET r == ActingOn(w)
                     l == r.location_id
                     done == Answers(w) /\ resp' = "OK"
                 IN  /\ locations' = locations
                     /\ \A j \in Locations \ {l} :
                           /\ locname'[j] = locname[j]
                           /\ locactive'[j] = locactive[j]
                     /\ locname'[l] = IF done /\ r.name # "none"
                                      THEN r.name ELSE locname[l]
                     /\ locactive'[l] = IF done /\ r.has_active
                                        THEN r.active ELSE locactive[l]
                     /\ Answers(w) /\ l \notin locations
                           => resp' = "NotFound"]_vars

\* An update that supplies a new name and nothing else has passed its
\* checks on an inactive location, and is about to write.
UpdatesNameAlone ==
    \E w \in Workers :
        /\ pc[w] = "checked"
        /\ req[w].op = "update_location"
        /\ req[w].name # "none"
        /\ ~req[w].has_active
        /\ req[w].name # locname[req[w].location_id]
        /\ ~locactive[req[w].location_id]

RECURSIVE SumAvailable(_)
SumAvailable(S) ==
    IF S = {} THEN 0
    ELSE LET k == CHOOSE x \in S : TRUE
         IN  inventory[k].available + SumAvailable(S \ {k})

RECURSIVE SumReserved(_)
SumReserved(S) ==
    IF S = {} THEN 0
    ELSE LET k == CHOOSE x \in S : TRUE
         IN  inventory[k].reserved + SumReserved(S \ {k})

\* C39: the inventory query of a product answers NotFound exactly when the
\* product has no record (at the location asked for, when one is), and
\* otherwise lists exactly those records, each once and with its counters,
\* with total_available and total_reserved the sums over them.
StatsAreSums ==
    [][listing'.op = "inventory" /\ listing' # listing
          => LET a == listing'.items[1]
                 want == {k \in Keys :
                             /\ inventory[k].present
                             /\ k[1] = a.product_id
                             /\ \/ listing'.location_id = "none"
                                \/ k[2] = listing'.location_id}
                 listed == {a.locations[i].key : i \in 1..Len(a.locations)}
             IN  /\ a.code = "NotFound" <=> want = {}
                 /\ listed = want
                 /\ Len(a.locations) = Cardinality(want)
                 /\ \A i \in 1..Len(a.locations) :
                       LET row == inventory[a.locations[i].key] IN
                       /\ a.locations[i].quantity_available = row.available
                       /\ a.locations[i].quantity_reserved = row.reserved
                 /\ a.total_available = SumAvailable(want)
                 /\ a.total_reserved = SumReserved(want)]_vars

\* The query of a product has listed its two records, of different
\* counters and with a quantity reserved, after requests on them.
StatsOfTwoRecords ==
    /\ listing.op = "inventory"
    /\ listing.location_id = "none"
    /\ Len(listing.items[1].locations) = 2
    /\ listing.items[1].total_reserved > 0
    /\ listing.items[1].locations[1].quantity_available
           # listing.items[1].locations[2].quantity_available
    /\ Len(adjustments) > 0

\* C40: whatever start and stop calls were made, at most one update-loop
\* task is live, and it is the updater's task: a running updater has its
\* task live (a start that finds it running adds none), an updater that
\* stop has returned from has none, and a task whose metrics update raised
\* is over only when it was cancelled.
SingleUpdateLoop ==
    /\ Cardinality(Live) <= 1
    /\ Live \subseteq {updater.task}
    /\ updater.running => Live = {updater.task}
    /\ (~ updater.running /\ updater.awaiting = 0) => Live = {}
    /\ Len(updater.tasks) + updater.refused <= updater.calls
    /\ \A t \in 1..Len(updater.tasks) :
          updater.tasks[t].at = "done" => updater.tasks[t].cancelled

\* A start call found the updater running, a stop call ended the first
\* task, and the task of the start call after it sleeps after a metrics
\* update that raised.
RestartedLoopSurvives ==
    /\ updater.refused > 0
    /\ Len(updater.tasks) = 2
    /\ updater.tasks[1].at = "done"
    /\ updater.running
    /\ updater.tasks[2].failed
    /\ updater.tasks[2].at = "sleeping"

====
